---- MODULE Spec2Model ----
(***************************************************************************)
(* Model of the prae validated-newtype wrapper: the PROCESS pipeline that  *)
(* define! / extend! generate (adjust, then ensure / validate, base        *)
(* contract first) and the Wrapper methods built on it (new, set,          *)
(* __mutate_with, the _unprocessed variants and verify), with the serde     *)
(* plugin's deserialize and the generators' reading of a definition.       *)
(*                                                                         *)
(* A String is a sequence of one-character strings.  The contracts are     *)
(* the ones the crate's documentation and tests declare.                   *)
(***************************************************************************)
EXTENDS Integers, Sequences, FiniteSets, TLC

\* Longest raw string handed to an operation.
MaxLen == 3

\* Characters of the raw inputs: whitespace, a lowercase letter, an ending
\* punctuation mark.  The uppercase letter "A" only arises from to_uppercase.
Chars == {" ", "a", "!"}

RECURSIVE StrUpTo(_)
StrUpTo(n) ==
    IF n = 0 THEN {<<>>}
    ELSE LET S == StrUpTo(n - 1)
         IN  S \cup {Append(s, ch) : s \in {t \in S : Len(t) = n - 1}, ch \in Chars}

\* The raw values a caller passes to new / set / a mutation closure.
Raw == StrUpTo(MaxLen)

----------------------------------------------------------------------------
(* String helpers used by the closures of the declared contracts.          *)

\* char::is_whitespace on the model's alphabet.
IsWhitespace(ch) == ch = " "

RECURSIVE TrimStart(_)
TrimStart(s) ==
    IF s = <<>> THEN s
    ELSE IF IsWhitespace(Head(s)) THEN TrimStart(Tail(s)) ELSE s

RECURSIVE TrimEnd(_)
TrimEnd(s) ==
    IF s = <<>> THEN s
    ELSE IF IsWhitespace(s[Len(s)]) THEN TrimEnd(SubSeq(s, 1, Len(s) - 1)) ELSE s

\* str::trim(): strips leading and trailing whitespace, keeps interior.
Trim(s) == TrimEnd(TrimStart(s))

\* char::to_uppercase on the model's alphabet.
ToUppercase(ch) == IF ch = "a" THEN "A" ELSE ch

\* String::is_empty
IsEmpty(s) == Len(s) = 0

\* str::trim_end_matches(&['.', '!', '?'][..]): strips every trailing
\* punctuation mark.
RECURSIVE TrimEndMatches(_)
TrimEndMatches(s) ==
    IF s = <<>> THEN s
    ELSE IF s[Len(s)] = "!" THEN TrimEndMatches(SubSeq(s, 1, Len(s) - 1)) ELSE s

\* str::ends_with(&['.', '!', '?'][..])
EndsWithPunct(s) == Len(s) > 0 /\ s[Len(s)] = "!"

----------------------------------------------------------------------------
(* The declared contracts.  base: the wrapper an extend! builds on;        *)
(* adjust: the adjust closure; check: which validation closure is present; *)
(* pred: the predicate; ety / emsg: the contract's Error type and value.   *)

NoBase == "none"

Sentinel == "value is invalid"

\* adjust |username| *username = username.trim().to_owned();
\* ensure |username| !username.is_empty();
Username ==
    [base |-> NoBase, adjust |-> "trim", check |-> "ensure",
     pred |-> "nonempty", ety |-> "&str", emsg |-> Sentinel]

\* ensure |u| !u.is_empty();  (no adjust)
UsernameEnsure ==
    [base |-> NoBase, adjust |-> "none", check |-> "ensure",
     pred |-> "nonempty", ety |-> "&str", emsg |-> Sentinel]

\* validate |u| -> Result<(), UsernameError>: Err(UsernameError {}) when
\* u.is_empty(); no adjust.  UsernameError displays "username is empty".
UsernameValidate ==
    [base |-> NoBase, adjust |-> "none", check |-> "validate",
     pred |-> "nonempty", ety |-> "UsernameError", emsg |-> "username is empty"]

\* adjust |u| *u = u.trim().to_owned();  (no predicate, Error = Infallible)
UsernameAdjust ==
    [base |-> NoBase, adjust |-> "trim", check |-> "none",
     pred |-> "any", ety |-> "Infallible", emsg |-> ""]

\* Text: trimmed, and rejected with a message of its own when empty.
Text ==
    [base |-> NoBase, adjust |-> "trim", check |-> "validate",
     pred |-> "nonempty", ety |-> "&str", emsg |-> "provided text is empty"]

\* CapText extends Text: its adjust capitalises the first character.
CapText ==
    [base |-> "Text", adjust |-> "cap", check |-> "none",
     pred |-> "any", ety |-> "&str", emsg |-> ""]

\* Sentence extends CapText: must end with a punctuation mark; Error = String.
Sentence ==
    [base |-> "CapText", adjust |-> "none", check |-> "validate",
     pred |-> "punct", ety |-> "String",
     emsg |-> "provided sentence has no ending punctuation mark"]

\* The Text of the extend! documentation: trim, ensure non-empty.
DocText ==
    [base |-> NoBase, adjust |-> "trim", check |-> "ensure",
     pred |-> "nonempty", ety |-> "&str", emsg |-> Sentinel]

\* The Sentence of the extend! documentation: extends that Text with
\* ensure |sentence| sentence.ends_with(&['.', '!', '?'][..]).
DocSentence ==
    [base |-> "DocText", adjust |-> "none", check |-> "ensure",
     pred |-> "punct", ety |-> "&str", emsg |-> Sentinel]

\* An extension whose only closure is an adjust that rewrites what the base
\* accepted: PlainText extends Text and strips the trailing punctuation,
\* adjust |t| *t = t.trim_end_matches(&['.', '!', '?'][..]).to_owned();
PlainText ==
    [base |-> "Text", adjust |-> "unpunct", check |-> "none",
     pred |-> "any", ety |-> "&str", emsg |-> ""]

\* A definition whose only closure is the adjust of CapText, with no base to
\* keep the empty text away from its unwrap().
Capitalized ==
    [base |-> NoBase, adjust |-> "cap", check |-> "none",
     pred |-> "any", ety |-> "Infallible", emsg |-> ""]

\* The declaration behind a wrapper's name.
Decl(c) ==
    CASE c = "Username"       -> Username
      [] c = "UsernameEnsure" -> UsernameEnsure
      [] c = "UsernameAdjust" -> UsernameAdjust
      [] c = "UsernameValidate" -> UsernameValidate
      [] c = "Text"           -> Text
      [] c = "CapText"        -> CapText
      [] c = "Sentence"       -> Sentence
      [] c = "DocText"        -> DocText
      [] c = "DocSentence"    -> DocSentence
      [] c = "PlainText"      -> PlainText
      [] c = "Capitalized"    -> Capitalized

\* The wrapper types a run may exercise.
Wrappers == {"Username", "UsernameEnsure", "UsernameAdjust",
             "UsernameValidate", "Text", "CapText", "Sentence", "DocSentence",
             "PlainText"}

\* The predicate closures: TRUE when the value is acceptable.
Pred(p, v) ==
    CASE p = "nonempty" -> ~IsEmpty(v)
      [] p = "punct"    -> EndsWithPunct(v)
      [] p = "any"      -> TRUE

\* CapText's adjust closure unwraps the first character of the text
\* (cs.next().unwrap()), so it panics on the empty string.
AdjustPanics(a, v) == a = "cap" /\ IsEmpty(v)

\* The adjust closures, where they return.
Adjust(a, v) ==
    CASE a = "trim" -> Trim(v)
      [] a = "cap"  -> <<ToUppercase(Head(v))>> \o Tail(v)
      [] a = "unpunct" -> TrimEndMatches(v)
      [] a = "none" -> v

----------------------------------------------------------------------------
(* PROCESS: the function every construction and mutation runs on the       *)
(* value.  It returns the outcome, the state the &mut value was left in,   *)
(* and the closure invocations it made, in order.                          *)

NoErr == [ty |-> "none", msg |-> ""]

\* The `?` on the base's result: From::from turns the base's error into this
\* contract's Error type and keeps what it says.
FromErr(e, ty) == [ty |-> ty, msg |-> e.msg]

\* One closure invocation: which contract's closure, which closure, the value
\* passed in, the value left behind and, for a predicate, its verdict.
Call(c, fn, arg, out, pass) ==
    [link |-> c, fn |-> fn, arg |-> arg, out |-> out, pass |-> pass]

\* AdjustStep with the adjust block left out of the generated PROCESS.
AdjustStep_LeftOut(c, v) ==
    [res |-> "ok", value |-> v, log |-> <<>>]

\* AdjustStep with a trim applied where the definition has no adjust.
AdjustStep_TrimByDefault(c, v) ==
    LET a == Decl(c).adjust
    IN  IF a = "none" THEN [res |-> "ok", value |-> Trim(v), log |-> <<>>]
        ELSE IF AdjustPanics(a, v)
             THEN [res |-> "panic", value |-> v,
                   log |-> <<Call(c, "adjust", v, v, FALSE)>>]
             ELSE [res |-> "ok", value |-> Adjust(a, v),
                   log |-> <<Call(c, "adjust", v, Adjust(a, v), TRUE)>>]

\* The optional adjust block of a closure arm.
AdjustStep(c, v) ==
    LET a == Decl(c).adjust
    IN  IF a = "none" THEN [res |-> "ok", value |-> v, log |-> <<>>]
        ELSE IF AdjustPanics(a, v)
             THEN [res |-> "panic", value |-> v,
                   log |-> <<Call(c, "adjust", v, v, FALSE)>>]
             ELSE [res |-> "ok", value |-> Adjust(a, v),
                   log |-> <<Call(c, "adjust", v, Adjust(a, v), TRUE)>>]

\* CheckStep with the test of the predicate's verdict turned round: the
\* value is rejected when the closure accepts it.
CheckStep_Negated(c, v) ==
    LET d == Decl(c)
    IN  IF d.check = "none" THEN [res |-> "ok", err |-> NoErr, log |-> <<>>]
        ELSE IF ~Pred(d.pred, v)
             THEN [res |-> "ok", err |-> NoErr,
                   log |-> <<Call(c, d.check, v, v, FALSE)>>]
             ELSE [res |-> "err", err |-> [ty |-> d.ety, msg |-> d.emsg],
                   log |-> <<Call(c, d.check, v, v, TRUE)>>]

\* The ensure / validate block of a closure arm, on the adjusted value.
CheckStep(c, v) ==
    LET d == Decl(c)
    IN  IF d.check = "none" THEN [res |-> "ok", err |-> NoErr, log |-> <<>>]
        ELSE IF Pred(d.pred, v)
             THEN [res |-> "ok", err |-> NoErr,
                   log |-> <<Call(c, d.check, v, v, TRUE)>>]
             ELSE [res |-> "err", err |-> [ty |-> d.ety, msg |-> d.emsg],
                   log |-> <<Call(c, d.check, v, v, FALSE)>>]

\* OwnProcess with the predicate handed the value as it was before adjust.
OwnProcess_CheckRawValue(c, v) ==
    LET a == AdjustStep(c, v)
    IN  IF a.res # "ok"
        THEN [res |-> a.res, err |-> NoErr, value |-> a.value, log |-> a.log]
        ELSE LET k == CheckStep(c, v)
             IN  [res |-> k.res, err |-> k.err, value |-> a.value,
                  log |-> a.log \o k.log]

\* OwnProcess with the predicate evaluated on the value as handed in, before
\* the adjust closure runs.
OwnProcess_CheckBeforeAdjust(c, v) ==
    LET k == CheckStep(c, v)
    IN  IF k.res # "ok"
        THEN [res |-> k.res, err |-> k.err, value |-> v, log |-> k.log]
        ELSE LET a == AdjustStep(c, v)
             IN  [res |-> a.res, err |-> NoErr, value |-> a.value,
                  log |-> k.log \o a.log]

\* The contract's own part of PROCESS: adjust, then ensure / validate.
OwnProcess(c, v) ==
    LET a == AdjustStep(c, v)
    IN  IF a.res # "ok"
        THEN [res |-> a.res, err |-> NoErr, value |-> a.value, log |-> a.log]
        ELSE LET k == CheckStep(c, a.value)
             IN  [res |-> k.res, err |-> k.err, value |-> a.value,
                  log |-> a.log \o k.log]

RECURSIVE PROCESS(_, _)

\* PROCESS with the contract's own closures run before the base's process.
PROCESS_OwnFirst(c, v) ==
    LET d == Decl(c)
    IN  IF d.base = NoBase THEN OwnProcess(c, v)
        ELSE LET o == OwnProcess(c, v)
             IN  IF o.res # "ok" THEN o
                 ELSE LET b == PROCESS(d.base, o.value)
                      IN  [b EXCEPT !.err = IF b.res = "err"
                                            THEN FromErr(b.err, d.ety)
                                            ELSE b.err,
                                    !.log = o.log \o b.log]

\* PROCESS without the `?`: the base's failure is kept for the end and the
\* contract's own closures run all the same.
PROCESS_IgnoreBaseFailure(c, v) ==
    LET d == Decl(c)
    IN  IF d.base = NoBase THEN OwnProcess(c, v)
        ELSE LET b == PROCESS(d.base, v)
                 o == OwnProcess(c, b.value)
             IN  IF b.res = "panic" THEN b
                 ELSE IF b.res = "err"
                 THEN [res |-> IF o.res = "panic" THEN "panic" ELSE "err",
                       err |-> FromErr(b.err, d.ety),
                       value |-> o.value, log |-> b.log \o o.log]
                 ELSE [o EXCEPT !.log = b.log \o o.log]

\* PROCESS with the base's process run on a copy: its verdict is used, its
\* adjustments are lost.
PROCESS_BaseOnCopy(c, v) ==
    LET d == Decl(c)
    IN  IF d.base = NoBase THEN OwnProcess(c, v)
        ELSE LET b == PROCESS(d.base, v)
             IN  IF b.res = "err"
                 THEN [b EXCEPT !.err = FromErr(b.err, d.ety)]
                 ELSE IF b.res = "panic" THEN b
                 ELSE LET o == OwnProcess(c, v)
                      IN  [o EXCEPT !.log = b.log \o o.log]

PROCESS(c, v) ==
    LET d == Decl(c)
    IN  IF d.base = NoBase THEN OwnProcess(c, v)
        ELSE LET b == PROCESS(d.base, v)
             IN  IF b.res = "err"
                 THEN [b EXCEPT !.err = FromErr(b.err, d.ety)]
                 ELSE IF b.res = "panic" THEN b
                 ELSE LET o == OwnProcess(c, b.value)
                      IN  [o EXCEPT !.log = b.log \o o.log]

----------------------------------------------------------------------------
(* The wrapper and its operations.                                         *)

VARIABLES
    contract,   \* the wrapper type under test (fixed for a run)
    debug,      \* TRUE when debug assertions are compiled in
    exists,     \* TRUE while the caller holds a wrapper
    inner,      \* self.0, the held value (<<>> while there is no wrapper)
    cloned,     \* the wrapper made by clone(), if any, and its self.0
    last        \* what the last operation was given and what it returned

vars == <<contract, debug, exists, inner, cloned, last>>

NoError == [kind |-> "none", original |-> NoErr,
            value |-> <<>>, old_value |-> <<>>, new_value |-> <<>>]

ConstructionError(original, value) ==
    [kind |-> "construction", original |-> original,
     value |-> value, old_value |-> <<>>, new_value |-> <<>>]

MutationError(original, old_value, new_value) ==
    [kind |-> "mutation", original |-> original,
     value |-> <<>>, old_value |-> old_value, new_value |-> new_value]

VerificationError(original, value) ==
    [kind |-> "verification", original |-> original,
     value |-> value, old_value |-> <<>>, new_value |-> <<>>]

\* The mutation closures a caller passes: |u| *u = s, |u| u.push_str(s),
\* |u| u.clear() and |_| ().
Closures ==
    {[k |-> "assign", s |-> s] : s \in Raw}
      \cup {[k |-> "push", s |-> <<ch>>] : ch \in Chars}
      \cup {[k |-> "clear", s |-> <<>>], [k |-> "noop", s |-> <<>>]}

Apply(f, v) ==
    CASE f.k = "assign" -> f.s
      [] f.k = "push"   -> v \o f.s
      [] f.k = "clear"  -> <<>>
      [] f.k = "noop"   -> v
      [] f.k = "remove" -> Tail(v)

\* |u| { u.remove(0); } panics on the empty string.
ClosurePanics(f, v) == f.k = "remove" /\ v = <<>>

\* A closure is offered only while its result stays within the bound.
Fits(f, v) == IF ClosurePanics(f, v) THEN TRUE ELSE Len(Apply(f, v)) <= MaxLen

RawArg(r) == [k |-> "raw", s |-> r]

NoArg == [k |-> "none", s |-> <<>>]

\* No call is in progress and no returned Result is being looked at.
Idle == [op |-> "idle", arg |-> NoArg, res |-> "ok",
         error |-> NoError, log |-> <<>>]

\* A method is called once the caller is done with the previous result.
Ready == last.op = "idle"

\* No clone of the wrapper has been made.
NoClone == [exists |-> FALSE, inner |-> <<>>]

Init ==
    /\ contract \in Wrappers
    /\ debug \in BOOLEAN
    /\ exists = FALSE
    /\ inner = <<>>
    /\ cloned = NoClone
    /\ last = Idle

\* New with the raw value, not the processed one, moved into the error.
New_RawInError(r) ==
    /\ Ready
    /\ \E p \in {PROCESS(contract, r)} :
        /\ IF p.res = "ok"
           THEN /\ exists' = TRUE
                /\ inner' = p.value
                /\ last' = [op |-> "new", arg |-> RawArg(r), res |-> "ok",
                            error |-> NoError, log |-> p.log]
           ELSE /\ UNCHANGED <<exists, inner>>
                /\ last' = [op |-> "new", arg |-> RawArg(r), res |-> p.res,
                            error |-> IF p.res = "err"
                                      THEN ConstructionError(p.err, r)
                                      ELSE NoError,
                            log |-> p.log]
        /\ UNCHANGED <<contract, debug, cloned>>

\* Wrapper::new
New(r) ==
    /\ Ready
    /\ \E p \in {PROCESS(contract, r)} :
        /\ IF p.res = "ok"
           THEN /\ exists' = TRUE
                /\ inner' = p.value
                /\ last' = [op |-> "new", arg |-> RawArg(r), res |-> "ok",
                            error |-> NoError, log |-> p.log]
           ELSE /\ UNCHANGED <<exists, inner>>
                /\ last' = [op |-> "new", arg |-> RawArg(r), res |-> p.res,
                            error |-> IF p.res = "err"
                                      THEN ConstructionError(p.err, p.value)
                                      ELSE NoError,
                            log |-> p.log]
        /\ UNCHANGED <<contract, debug, cloned>>

\* Set with self.0 overwritten before the outcome of PROCESS is looked at.
Set_CommitBeforeMatch(r) ==
    /\ Ready
    /\ exists
    /\ \E p \in {PROCESS(contract, r)} :
        /\ inner' = p.value
        /\ last' = [op |-> "set", arg |-> RawArg(r), res |-> p.res,
                    error |-> IF p.res = "err"
                              THEN ConstructionError(p.err, p.value)
                              ELSE NoError,
                    log |-> p.log]
        /\ UNCHANGED <<contract, debug, cloned, exists>>

\* Set with the raw value, not the processed one, moved into the error.
Set_RawInError(r) ==
    /\ Ready
    /\ exists
    /\ \E p \in {PROCESS(contract, r)} :
        /\ IF p.res = "ok"
           THEN /\ inner' = p.value
                /\ last' = [op |-> "set", arg |-> RawArg(r), res |-> "ok",
                            error |-> NoError, log |-> p.log]
           ELSE /\ UNCHANGED inner
                /\ last' = [op |-> "set", arg |-> RawArg(r), res |-> p.res,
                            error |-> IF p.res = "err"
                                      THEN ConstructionError(p.err, r)
                                      ELSE NoError,
                            log |-> p.log]
        /\ UNCHANGED <<contract, debug, cloned, exists>>

\* Wrapper::set
Set(r) ==
    /\ Ready
    /\ exists
    /\ \E p \in {PROCESS(contract, r)} :
        /\ IF p.res = "ok"
           THEN /\ inner' = p.value
                /\ last' = [op |-> "set", arg |-> RawArg(r), res |-> "ok",
                            error |-> NoError, log |-> p.log]
           ELSE /\ UNCHANGED inner
                /\ last' = [op |-> "set", arg |-> RawArg(r), res |-> p.res,
                            error |-> IF p.res = "err"
                                      THEN ConstructionError(p.err, p.value)
                                      ELSE NoError,
                            log |-> p.log]
        /\ UNCHANGED <<contract, debug, cloned, exists>>

\* __mutate_with with the closure's result, before PROCESS touched it, moved
\* into the error as new_value.
MutateWith_RawNewValue(f) ==
    /\ Ready
    /\ exists
    /\ Fits(f, inner)
    /\ \E value \in {Apply(f, inner)} : \E p \in {PROCESS(contract, value)} :
        /\ IF p.res = "ok"
           THEN /\ inner' = p.value
                /\ last' = [op |-> "mutate", arg |-> f, res |-> "ok",
                            error |-> NoError, log |-> p.log]
           ELSE /\ UNCHANGED inner
                /\ last' = [op |-> "mutate", arg |-> f, res |-> p.res,
                            error |-> IF p.res = "err"
                                      THEN MutationError(p.err, inner, value)
                                      ELSE NoError,
                            log |-> p.log]
        /\ UNCHANGED <<contract, debug, cloned, exists>>

\* __mutate_with with the closure and PROCESS run on self.0 instead of on a
\* clone.
MutateWith_OnLiveValue(f) ==
    /\ Ready
    /\ exists
    /\ Fits(f, inner)
    /\ \E value \in {Apply(f, inner)} : \E p \in {PROCESS(contract, value)} :
        /\ inner' = p.value
        /\ last' = [op |-> "mutate", arg |-> f, res |-> p.res,
                    error |-> IF p.res = "err"
                              THEN MutationError(p.err, p.value, p.value)
                              ELSE NoError,
                    log |-> p.log]
        /\ UNCHANGED <<contract, debug, cloned, exists>>

\* __mutate_with with the closure's result stored as the closure left it,
\* not as PROCESS left it.
MutateWith_StoreClosureResult(f) ==
    /\ Ready
    /\ exists
    /\ Fits(f, inner)
    /\ \E value \in {Apply(f, inner)} : \E p \in {PROCESS(contract, value)} :
        /\ IF p.res = "ok"
           THEN /\ inner' = value
                /\ last' = [op |-> "mutate", arg |-> f, res |-> "ok",
                            error |-> NoError, log |-> p.log]
           ELSE /\ UNCHANGED inner
                /\ last' = [op |-> "mutate", arg |-> f, res |-> p.res,
                            error |-> IF p.res = "err"
                                      THEN MutationError(p.err, inner, p.value)
                                      ELSE NoError,
                            log |-> p.log]
        /\ UNCHANGED <<contract, debug, cloned, exists>>

\* __mutate_with with the closure and PROCESS run on self.0 and the result
\* looked at afterwards: what they did before a panic stays in the wrapper.
MutateWith_NoClone(f) ==
    /\ Ready
    /\ exists
    /\ Fits(f, inner)
    /\ IF ClosurePanics(f, inner)
       THEN /\ last' = [op |-> "mutate", arg |-> f, res |-> "panic",
                        error |-> NoError, log |-> <<>>]
            /\ UNCHANGED <<contract, debug, cloned, exists, inner>>
       ELSE \E value \in {Apply(f, inner)} : \E p \in {PROCESS(contract, value)} :
            /\ IF p.res = "err"
               THEN /\ UNCHANGED inner
                    /\ last' = [op |-> "mutate", arg |-> f, res |-> "err",
                                error |-> MutationError(p.err, inner, p.value),
                                log |-> p.log]
               ELSE /\ inner' = p.value
                    /\ last' = [op |-> "mutate", arg |-> f, res |-> p.res,
                                error |-> NoError, log |-> p.log]
            /\ UNCHANGED <<contract, debug, cloned, exists>>

\* Wrapper::__mutate_with (behind mutate): clone, run the closure and PROCESS
\* on the clone, commit on success.  A panic of the closure or of PROCESS
\* unwinds out of the call with the clone.
MutateWith(f) ==
    /\ Ready
    /\ exists
    /\ Fits(f, inner)
    /\ IF ClosurePanics(f, inner)
       THEN /\ last' = [op |-> "mutate", arg |-> f, res |-> "panic",
                        error |-> NoError, log |-> <<>>]
            /\ UNCHANGED <<contract, debug, cloned, exists, inner>>
       ELSE \E value \in {Apply(f, inner)} : \E p \in {PROCESS(contract, value)} :
            /\ IF p.res = "ok"
               THEN /\ inner' = p.value
                    /\ last' = [op |-> "mutate", arg |-> f, res |-> "ok",
                                error |-> NoError, log |-> p.log]
               ELSE /\ UNCHANGED inner
                    /\ last' = [op |-> "mutate", arg |-> f, res |-> p.res,
                                error |-> IF p.res = "err"
                                          THEN MutationError(p.err, inner, p.value)
                                          ELSE NoError,
                                log |-> p.log]
            /\ UNCHANGED <<contract, debug, cloned, exists>>

\* Wrapper::new_unprocessed: debug_assert!(PROCESS(&mut value).is_ok()) runs
\* PROCESS on the value in a debug build and is compiled out otherwise.
NewUnprocessed(r) ==
    /\ Ready
    /\ \E p \in {PROCESS(contract, r)} :
        /\ IF ~debug
           THEN /\ exists' = TRUE
                /\ inner' = r
                /\ last' = [op |-> "new_unprocessed", arg |-> RawArg(r),
                            res |-> "ok", error |-> NoError, log |-> <<>>]
           ELSE IF p.res = "ok"
           THEN /\ exists' = TRUE
                /\ inner' = p.value
                /\ last' = [op |-> "new_unprocessed", arg |-> RawArg(r),
                            res |-> "ok", error |-> NoError, log |-> p.log]
           ELSE /\ UNCHANGED <<exists, inner>>
                /\ last' = [op |-> "new_unprocessed", arg |-> RawArg(r),
                            res |-> "panic", error |-> NoError, log |-> p.log]
        /\ UNCHANGED <<contract, debug, cloned>>

\* Wrapper::set_unprocessed
SetUnprocessed(r) ==
    /\ Ready
    /\ exists
    /\ \E p \in {PROCESS(contract, r)} :
        /\ IF ~debug
           THEN /\ inner' = r
                /\ last' = [op |-> "set_unprocessed", arg |-> RawArg(r),
                            res |-> "ok", error |-> NoError, log |-> <<>>]
           ELSE IF p.res = "ok"
           THEN /\ inner' = p.value
                /\ last' = [op |-> "set_unprocessed", arg |-> RawArg(r),
                            res |-> "ok", error |-> NoError, log |-> p.log]
           ELSE /\ UNCHANGED inner
                /\ last' = [op |-> "set_unprocessed", arg |-> RawArg(r),
                            res |-> "panic", error |-> NoError, log |-> p.log]
        /\ UNCHANGED <<contract, debug, cloned, exists>>

\* Wrapper::mutate_unprocessed: the closure, and in a debug build PROCESS,
\* run on the live value itself.
MutateUnprocessed(f) ==
    /\ Ready
    /\ exists
    /\ Fits(f, inner)
    /\ \E value \in {Apply(f, inner)} : \E p \in {PROCESS(contract, value)} :
        /\ IF ~debug
           THEN /\ inner' = value
                /\ last' = [op |-> "mutate_unprocessed", arg |-> f,
                            res |-> "ok", error |-> NoError, log |-> <<>>]
           ELSE /\ inner' = p.value
                /\ last' = [op |-> "mutate_unprocessed", arg |-> f,
                            res |-> IF p.res = "ok" THEN "ok" ELSE "panic",
                            error |-> NoError, log |-> p.log]
        /\ UNCHANGED <<contract, debug, cloned, exists>>

\* verify with only the contract's predicate run on self.0, adjust left out.
Verify_ValidateOnly ==
    /\ Ready
    /\ exists
    /\ \E k \in {CheckStep(contract, inner)} :
        /\ IF k.res = "ok"
           THEN /\ UNCHANGED <<exists, inner>>
                /\ last' = [op |-> "verify", arg |-> RawArg(inner), res |-> "ok",
                            error |-> NoError, log |-> k.log]
           ELSE /\ exists' = FALSE
                /\ inner' = <<>>
                /\ last' = [op |-> "verify", arg |-> RawArg(inner), res |-> "err",
                            error |-> VerificationError(k.err, inner),
                            log |-> k.log]
        /\ UNCHANGED <<contract, debug, cloned>>

\* verify with PROCESS run on a copy of self.0, the wrapper given back as it
\* came in.
Verify_OnCopy ==
    /\ Ready
    /\ exists
    /\ \E p \in {PROCESS(contract, inner)} :
        /\ IF p.res = "ok"
           THEN /\ UNCHANGED <<exists, inner>>
                /\ last' = [op |-> "verify", arg |-> RawArg(inner), res |-> "ok",
                            error |-> NoError, log |-> p.log]
           ELSE /\ exists' = FALSE
                /\ inner' = <<>>
                /\ last' = [op |-> "verify", arg |-> RawArg(inner), res |-> p.res,
                            error |-> IF p.res = "err"
                                      THEN VerificationError(p.err, p.value)
                                      ELSE NoError,
                            log |-> p.log]
        /\ UNCHANGED <<contract, debug, cloned>>

\* Wrapper::verify: consumes the wrapper, runs PROCESS on self.0 and gives
\* the wrapper back, or moves the value into the error.
Verify ==
    /\ Ready
    /\ exists
    /\ \E p \in {PROCESS(contract, inner)} :
        /\ IF p.res = "ok"
           THEN /\ inner' = p.value
                /\ UNCHANGED exists
                /\ last' = [op |-> "verify", arg |-> RawArg(inner), res |-> "ok",
                            error |-> NoError, log |-> p.log]
           ELSE /\ exists' = FALSE
                /\ inner' = <<>>
                /\ last' = [op |-> "verify", arg |-> RawArg(inner), res |-> p.res,
                            error |-> IF p.res = "err"
                                      THEN VerificationError(p.err, p.value)
                                      ELSE NoError,
                            log |-> p.log]
        /\ UNCHANGED <<contract, debug, cloned>>

\* The caller is done with the Result the last call returned.
Drop ==
    /\ ~Ready
    /\ last' = Idle
    /\ UNCHANGED <<contract, debug, cloned, exists, inner>>

Next ==
    \/ \E r \in Raw : New(r)
    \/ \E r \in Raw : Set(r)
    \/ \E f \in Closures : MutateWith(f)
    \/ \E r \in Raw : NewUnprocessed(r)
    \/ \E r \in Raw : SetUnprocessed(r)
    \/ \E f \in Closures : MutateUnprocessed(f)
    \/ Verify
    \/ Drop

Spec == Init /\ [][Next]_vars

\* The checked operations only: no _unprocessed call is ever made.
NextChecked ==
    \/ \E r \in Raw : New(r)
    \/ \E r \in Raw : Set(r)
    \/ \E f \in Closures : MutateWith(f)
    \/ Drop

SpecChecked == Init /\ [][NextChecked]_vars

\* The checked operations and verify: what a caller can do to a wrapper
\* without ever making an _unprocessed call.
NextCheckedVerify ==
    \/ \E r \in Raw : New(r)
    \/ \E r \in Raw : Set(r)
    \/ \E f \in Closures : MutateWith(f)
    \/ Verify
    \/ Drop

SpecCheckedVerify == Init /\ [][NextCheckedVerify]_vars

\* What Wrapper::new returns for r: Ok with the value the new wrapper
\* holds, or Err with the ConstructionError.
NewResult(r) ==
    LET p == PROCESS(contract, r)
    IN  [res |-> p.res, held |-> p.value,
         error |-> IF p.res = "err" THEN ConstructionError(p.err, p.value)
                   ELSE NoError]

\* A fallible mutation that stores the closure's result without PROCESS.
TryMutate_NoProcess(f, v) ==
    [res |-> "ok", held |-> Apply(f, v)]

\* What the fallible mutation makes of closure f on a wrapper holding v: its
\* result and the value the wrapper holds afterwards.  The closure and
\* PROCESS run on a clone; the clone is stored only on Ok.
TryMutate(f, v) ==
    LET p == PROCESS(contract, Apply(f, v))
    IN  [res |-> p.res, held |-> IF p.res = "ok" THEN p.value ELSE v]

\* The panicking mutate: the closure runs on the live value itself, which is
\* then adjusted and validated in place; an invalid result is a panic, and
\* the live value stays as the closure and adjust left it.
MutatePanicking(f) ==
    /\ Ready
    /\ exists
    /\ Fits(f, inner)
    /\ \E p \in {PROCESS(contract, Apply(f, inner))} :
        /\ inner' = p.value
        /\ last' = [op |-> "mutate_panicking", arg |-> f,
                    res |-> IF p.res = "ok" THEN "ok" ELSE "panic",
                    error |-> NoError, log |-> p.log]
        /\ UNCHANGED <<contract, debug, cloned, exists>>

\* The two mutation forms side by side, with construction.
NextMutate ==
    \/ \E r \in Raw : New(r)
    \/ \E f \in Closures : MutateWith(f)
    \/ \E f \in Closures : MutatePanicking(f)
    \/ Drop

SpecMutate == Init /\ [][NextMutate]_vars

\* The documents a deserializer is handed for the wrapper: a string, which
\* Inner::deserialize decodes to the raw value, or something that is not a
\* string, which it refuses.
Documents ==
    {[k |-> "string", s |-> r] : r \in Raw} \cup {[k |-> "number", s |-> <<>>]}

\* serde::de::Error::custom(err): the deserializer's error saying what err
\* displays; the value the ConstructionError carried is dropped.
Custom(e) ==
    [kind |-> "custom", original |-> [ty |-> "D::Error", msg |-> e.msg],
     value |-> <<>>, old_value |-> <<>>, new_value |-> <<>>]

\* The deserializer's own error for a document of the wrong type.
InvalidType ==
    [kind |-> "custom", original |-> [ty |-> "D::Error", msg |-> "invalid type"],
     value |-> <<>>, old_value |-> <<>>, new_value |-> <<>>]

\* Deserialize as derived for a newtype: the decoded value is wrapped as it
\* is.
Deserialize_Derived(d) ==
    /\ Ready
    /\ IF d.k # "string"
       THEN /\ UNCHANGED <<exists, inner>>
            /\ last' = [op |-> "deserialize", arg |-> d, res |-> "err",
                        error |-> InvalidType, log |-> <<>>]
       ELSE /\ exists' = TRUE
            /\ inner' = d.s
            /\ last' = [op |-> "deserialize", arg |-> d, res |-> "ok",
                        error |-> NoError, log |-> <<>>]
    /\ UNCHANGED <<contract, debug, cloned>>

\* impl_serde, Deserialize::deserialize: Inner::deserialize(deserializer)?,
\* then Wrapper::new on the decoded value, its error mapped with
\* Error::custom(err.original).
Deserialize(d) ==
    /\ Ready
    /\ IF d.k # "string"
       THEN /\ UNCHANGED <<exists, inner>>
            /\ last' = [op |-> "deserialize", arg |-> d, res |-> "err",
                        error |-> InvalidType, log |-> <<>>]
       ELSE \E p \in {PROCESS(contract, d.s)} :
              IF p.res = "ok"
              THEN /\ exists' = TRUE
                   /\ inner' = p.value
                   /\ last' = [op |-> "deserialize", arg |-> d, res |-> "ok",
                               error |-> NoError, log |-> p.log]
              ELSE /\ UNCHANGED <<exists, inner>>
                   /\ last' = [op |-> "deserialize", arg |-> d, res |-> p.res,
                               error |-> IF p.res = "err" THEN Custom(p.err)
                                         ELSE NoError,
                               log |-> p.log]
    /\ UNCHANGED <<contract, debug, cloned>>

\* Wrappers that come from deserialization and the checked operations.
NextSerde ==
    \/ \E d \in Documents : Deserialize(d)
    \/ \E r \in Raw : New(r)
    \/ \E r \in Raw : Set(r)
    \/ \E f \in Closures : MutateWith(f)
    \/ Drop

SpecSerde == Init /\ [][NextSerde]_vars

\* The contract's own error, out of its wrapper: what is left of a
\* ConstructionError or MutationError after |err| err.inner.
InnerError(e) ==
    [kind |-> "inner", original |-> e.original,
     value |-> <<>>, old_value |-> <<>>, new_value |-> <<>>]

\* map_inner with the wrapper's error replaced by one that says nothing.
MapInner_DropError ==
    /\ last.op \in {"new", "set", "mutate"}
    /\ last' = [op |-> "map_inner", arg |-> [k |-> last.op, s |-> <<>>],
                res |-> last.res,
                error |-> IF last.res = "err"
                          THEN InnerError(NoError) ELSE NoError,
                log |-> last.log]
    /\ UNCHANGED <<contract, debug, cloned, exists, inner>>

\* MapInnerError::map_inner on the Result the last new, set or mutate
\* returned: self.map_err(|err| err.inner).
MapInner ==
    /\ last.op \in {"new", "set", "mutate"}
    /\ last' = [op |-> "map_inner", arg |-> [k |-> last.op, s |-> <<>>],
                res |-> last.res,
                error |-> IF last.res = "err"
                          THEN InnerError(last.error) ELSE NoError,
                log |-> last.log]
    /\ UNCHANGED <<contract, debug, cloned, exists, inner>>

\* The checked operations, their Results handed to map_inner or dropped.
NextMapInner ==
    \/ \E r \in Raw : New(r)
    \/ \E r \in Raw : Set(r)
    \/ \E f \in Closures : MutateWith(f)
    \/ MapInner
    \/ Drop

SpecMapInner == Init /\ [][NextMapInner]_vars

\* Values and closures handed to a wrapper and its clone.
Samples == {<<>>, <<" ", "a">>, <<"a", "!">>}

SampleClosures ==
    {[k |-> "assign", s |-> r] : r \in Samples} \cup {[k |-> "push", s |-> <<"!">>]}

\* clone() made by handing the held value to new again: the copy holds what
\* PROCESS makes of it.
CloneWrapper_ThroughNew ==
    /\ Ready
    /\ exists
    /\ \E p \in {PROCESS(contract, inner)} :
         cloned' = [exists |-> p.res = "ok", inner |-> p.value]
    /\ last' = [op |-> "clone", arg |-> RawArg(inner), res |-> "ok",
                error |-> NoError, log |-> <<>>]
    /\ UNCHANGED <<contract, debug, exists, inner>>

\* Clone::clone, derived for the wrapper (or written out for Bounded): a new
\* wrapper around self.0.clone(), a String of its own.
CloneWrapper ==
    /\ Ready
    /\ exists
    /\ cloned' = [exists |-> TRUE, inner |-> inner]
    /\ last' = [op |-> "clone", arg |-> RawArg(inner), res |-> "ok",
                error |-> NoError, log |-> <<>>]
    /\ UNCHANGED <<contract, debug, exists, inner>>

\* The caller turns from the wrapper to its clone: the next calls are made
\* on the other of the two.
Swap ==
    /\ Ready
    /\ exists
    /\ cloned.exists
    /\ inner' = cloned.inner
    /\ cloned' = [exists |-> TRUE, inner |-> inner]
    /\ UNCHANGED <<contract, debug, exists, last>>

\* A wrapper and its clone, each constructed, set and mutated in turn.
NextClone ==
    \/ \E r \in Samples : New(r)
    \/ \E r \in Samples : NewUnprocessed(r)
    \/ \E r \in Samples : Set(r)
    \/ \E f \in SampleClosures : MutateWith(f)
    \/ CloneWrapper
    \/ Swap
    \/ Drop

SpecClone == Init /\ [][NextClone]_vars

----------------------------------------------------------------------------
(* Read-only access: the methods and trait impls that take &self.          *)

\* What a read saw and gave back, as one entry of the log.
Observed(fn, out) == <<Call(contract, fn, inner, out, TRUE)>>

\* A read of the wrapper that returns `out` and cannot fail.
Read(fn, arg, out) ==
    /\ Ready
    /\ exists
    /\ last' = [op |-> fn, arg |-> arg, res |-> "ok", error |-> NoError,
                log |-> Observed(fn, out)]
    /\ UNCHANGED <<contract, debug, exists, inner, cloned>>

\* Wrapper::get: &self.0
Get == Read("get", NoArg, inner)

\* AsRef::as_ref: &self.0
AsRef == Read("as_ref", NoArg, inner)

\* Borrow::borrow: &self.0
Borrow == Read("borrow", NoArg, inner)

\* Deref::deref (impl_deref): &self.0
Deref == Read("deref", NoArg, inner)

\* The code point of a character of the model's alphabet.
CodePoint(ch) ==
    CASE ch = " " -> 32
      [] ch = "!" -> 33
      [] ch = "A" -> 65
      [] ch = "a" -> 97

\* str::cmp: lexicographic, by bytes.
RECURSIVE Cmp(_, _)
Cmp(a, b) ==
    IF a = <<>> THEN (IF b = <<>> THEN "Equal" ELSE "Less")
    ELSE IF b = <<>> THEN "Greater"
    ELSE IF CodePoint(Head(a)) < CodePoint(Head(b)) THEN "Less"
    ELSE IF CodePoint(Head(a)) > CodePoint(Head(b)) THEN "Greater"
    ELSE Cmp(Tail(a), Tail(b))

\* PartialEq::eq against the clone: self.0.eq(&other.0)
Eq ==
    /\ cloned.exists
    /\ Read("eq", RawArg(cloned.inner), inner = cloned.inner)

\* Ord::cmp against the clone: self.0.cmp(&other.0)
Ord ==
    /\ cloned.exists
    /\ Read("cmp", RawArg(cloned.inner), Cmp(inner, cloned.inner))

\* Index::index with the range ..n: self.0.index(idx), which panics when
\* the range ends beyond the end of the string.
Index(n) ==
    /\ Ready
    /\ exists
    /\ last' = [op |-> "index", arg |-> [k |-> "range_to", s |-> <<n>>],
                res |-> IF n <= Len(inner) THEN "ok" ELSE "panic",
                error |-> NoError,
                log |-> IF n <= Len(inner)
                        THEN Observed("index", SubSeq(inner, 1, n))
                        ELSE <<>>]
    /\ UNCHANGED <<contract, debug, exists, inner, cloned>>

\* Serialize that hands the value to PROCESS first and fails when it is
\* rejected.
Serialize_Revalidates ==
    /\ Ready
    /\ exists
    /\ \E p \in {PROCESS(contract, inner)} :
         last' = [op |-> "serialize", arg |-> NoArg, res |-> p.res,
                  error |-> IF p.res = "err" THEN Custom(p.err) ELSE NoError,
                  log |-> IF p.res = "ok"
                          THEN Observed("serialize",
                                        [k |-> "string", s |-> p.value])
                          ELSE <<>>]
    /\ UNCHANGED <<contract, debug, exists, inner, cloned>>

\* impl_serde, Serialize::serialize: Inner::serialize(&self.0, serializer);
\* the document is the held string.
Serialize == Read("serialize", NoArg, [k |-> "string", s |-> inner])

ReadOps == {"get", "as_ref", "borrow", "deref", "eq", "cmp", "index",
            "serialize"}

\* Wrappers made by checked and unprocessed construction and mutation, a
\* clone to compare with, and the reads.
NextRead ==
    \/ \E r \in Samples : New(r)
    \/ \E r \in Samples : NewUnprocessed(r)
    \/ \E f \in SampleClosures : MutateWith(f)
    \/ CloneWrapper
    \/ Get
    \/ AsRef
    \/ Borrow
    \/ Deref
    \/ Eq
    \/ Ord
    \/ \E n \in 0..MaxLen : Index(n)
    \/ Serialize
    \/ Drop

SpecRead == Init /\ [][NextRead]_vars

----------------------------------------------------------------------------
(* Panics inside a fallible mutation.                                      *)

\* Wrappers that can hold the empty string, one of them with an adjust that
\* panics on it.
PanicWrappers == {"UsernameAdjust", "Capitalized"}

InitPanic ==
    /\ contract \in PanicWrappers
    /\ debug \in BOOLEAN
    /\ exists = FALSE
    /\ inner = <<>>
    /\ cloned = NoClone
    /\ last = Idle

\* The sample closures, |u| u.clear() and |u| { u.remove(0); }.
PanicClosures ==
    SampleClosures \cup {[k |-> "clear", s |-> <<>>], [k |-> "remove", s |-> <<>>]}

NextPanic ==
    \/ \E r \in Samples : New(r)
    \/ \E f \in PanicClosures : MutateWith(f)
    \/ CloneWrapper
    \/ Drop

SpecPanic == InitPanic /\ [][NextPanic]_vars

----------------------------------------------------------------------------
(* Out of the wrapper and back in.                                         *)

\* From<$wrapper> for $inner: the wrapper is consumed and wrapper.0 is
\* handed out.
IntoInner ==
    /\ Ready
    /\ exists
    /\ exists' = FALSE
    /\ inner' = <<>>
    /\ last' = [op |-> "into_inner", arg |-> NoArg, res |-> "ok",
                error |-> NoError, log |-> Observed("into_inner", inner)]
    /\ UNCHANGED <<contract, debug, cloned>>

\* TryFrom<$inner> for $wrapper: Wrapper::new(value).
TryFrom(r) ==
    /\ Ready
    /\ \E n \in {NewResult(r)} :
        /\ IF n.res = "ok"
           THEN exists' = TRUE /\ inner' = n.held
           ELSE UNCHANGED <<exists, inner>>
        /\ last' = [op |-> "try_from", arg |-> RawArg(r), res |-> n.res,
                    error |-> n.error, log |-> PROCESS(contract, r).log]
    /\ UNCHANGED <<contract, debug, cloned>>

\* Values to come back with: some the pipeline leaves alone and some it
\* rewrites.
RoundInputs == {<<>>, <<"!">>, <<"a">>, <<"a", " ">>, <<"a", " ", "!">>}

RoundDocuments ==
    {[k |-> "string", s |-> r] : r \in RoundInputs} \cup {[k |-> "number", s |-> <<>>]}

\* Wrappers made and changed by the checked operations, cloned, taken apart,
\* serialized, and made again from an inner value or a document.
NextRound ==
    \/ \E r \in RoundInputs : New(r)
    \/ \E f \in SampleClosures : MutateWith(f)
    \/ CloneWrapper
    \/ IntoInner
    \/ \E r \in RoundInputs : TryFrom(r)
    \/ Serialize
    \/ \E d \in RoundDocuments : Deserialize(d)
    \/ Drop

SpecRound == Init /\ [][NextRound]_vars

----------------------------------------------------------------------------
(* The generators.  What follows the type of a definition is read as a     *)
(* sequence of clauses, each named by its keyword; the closure and the     *)
(* error type a clause carries play no part in whether it is accepted.     *)

\* Most clauses written in one definition.
MaxClauses == 3

\* mod kw: the keywords of the procedural macro.
Keywords == {"extend", "adjust", "ensure", "validate"}

RECURSIVE ClausesUpTo(_)
ClausesUpTo(n) ==
    IF n = 0 THEN {<<>>}
    ELSE LET S == ClausesUpTo(n - 1)
         IN  S \cup {Append(s, kw) : s \in {t \in S : Len(t) = n - 1},
                                     kw \in Keywords}

\* The clause lists a definition may be written with.
Definitions == ClausesUpTo(MaxClauses)

\* An optional clause: taken off the input when the input starts with its
\* keyword (lookahead1().peek(kw), or a macro_rules $( ... )? group).
OptionalClause(input, kw) ==
    IF input # <<>> /\ Head(input) = kw
    THEN [some |-> TRUE, rest |-> Tail(input)]
    ELSE [some |-> FALSE, rest |-> input]

parse_extend_bound(input) == OptionalClause(input, "extend")

parse_adjust_closure(input) == OptionalClause(input, "adjust")

parse_validate_closure(input) == OptionalClause(input, "validate")

parse_ensure_closure(input) == OptionalClause(input, "ensure")

\* The message of the error (the source sets the two keywords in backquotes).
BothClosures == "you can't use both ensure and validate closures at the same time"

\* parse_validation_closure with a validate closure winning over an ensure
\* closure that follows it.
parse_validation_closure_ValidateWins(input) ==
    LET validate == parse_validate_closure(input)
        ensure == parse_ensure_closure(validate.rest)
    IN  [res |-> "ok", msg |-> "",
         closure |-> IF validate.some THEN "validate"
                     ELSE IF ensure.some THEN "ensure" ELSE "none",
         rest |-> ensure.rest]

\* parse_validation_closure: an optional validate closure, then an optional
\* ensure closure; an error when both were found.
parse_validation_closure(input) ==
    LET validate == parse_validate_closure(input)
        ensure == parse_ensure_closure(validate.rest)
    IN  IF validate.some /\ ensure.some
        THEN [res |-> "err", msg |-> BothClosures, closure |-> "none",
              rest |-> ensure.rest]
        ELSE [res |-> "ok", msg |-> "",
              closure |-> IF validate.some THEN "validate"
                          ELSE IF ensure.some THEN "ensure" ELSE "none",
              rest |-> ensure.rest]

\* Definition::parse after the type: extend bound, adjust closure,
\* validation closure, in that order.
DefinitionParse(input) ==
    LET extend_bound == parse_extend_bound(input)
        adjust == parse_adjust_closure(extend_bound.rest)
        validate == parse_validation_closure(adjust.rest)
    IN  [res |-> validate.res, msg |-> validate.msg,
         extend |-> extend_bound.some, adjust |-> adjust.some,
         closure |-> validate.closure, rest |-> validate.rest]

\* parse_macro_input!(input as Definition): the parsed definition, or a
\* compile error; input left over after Definition::parse is an error too.
ParseMacroInput(input) ==
    LET d == DefinitionParse(input)
    IN  IF d.res = "err" THEN d
        ELSE IF d.rest # <<>>
             THEN [d EXCEPT !.res = "err", !.msg = "unexpected token",
                            !.closure = "none"]
             ELSE d

\* The closure arms of define!: the first arm whose pattern is the whole of
\* the clauses handed on by the required part, or none of them.
ClosureArm(input) ==
    LET adjust == OptionalClause(input, "adjust")
    IN  IF adjust.rest = <<>> THEN "1"
        ELSE IF adjust.rest = <<"ensure">> THEN "2"
        ELSE IF adjust.rest = <<"validate">> THEN "3"
        ELSE "none"

\* define!: the required part takes an optional adjust, an optional ensure
\* and an optional validate clause in this order and hands them to the
\* closure arms; a definition no arm takes does not compile.
DefineRules(input) ==
    LET adjust == OptionalClause(input, "adjust")
        ensure == OptionalClause(adjust.rest, "ensure")
        validate == OptionalClause(ensure.rest, "validate")
        arm == ClosureArm(input)
    IN  IF validate.rest # <<>> \/ arm = "none"
        THEN [res |-> "err", msg |-> "no rules expected this token",
              extend |-> FALSE, adjust |-> FALSE, closure |-> "none",
              rest |-> validate.rest]
        ELSE [res |-> "ok", msg |-> "", extend |-> FALSE,
              adjust |-> adjust.some,
              closure |-> IF arm = "2" THEN "ensure"
                          ELSE IF arm = "3" THEN "validate" ELSE "none",
              rest |-> <<>>]

\* A compile error of a macro invocation.
CompileError(msg) ==
    [kind |-> "compile", original |-> [ty |-> "compile_error", msg |-> msg],
     value |-> <<>>, old_value |-> <<>>, new_value |-> <<>>]

\* The generated item: which blocks its process function has.
Generated(g) ==
    IF g.res = "ok"
    THEN <<[extend |-> g.extend, adjust |-> g.adjust, closure |-> g.closure]>>
    ELSE <<>>

\* A definition is handed to the procedural macro define.
DefineProcMacro(input) ==
    /\ Ready
    /\ \E g \in {ParseMacroInput(input)} :
        last' = [op |-> "prae_macro::define",
                 arg |-> [k |-> "definition", s |-> input],
                 res |-> g.res,
                 error |-> IF g.res = "err" THEN CompileError(g.msg)
                           ELSE NoError,
                 log |-> Generated(g)]
    /\ UNCHANGED <<contract, debug, cloned, exists, inner>>

\* A definition is handed to the declarative macro define!.
DefineMacroRules(input) ==
    /\ Ready
    /\ \E g \in {DefineRules(input)} :
        last' = [op |-> "define!",
                 arg |-> [k |-> "definition", s |-> input],
                 res |-> g.res,
                 error |-> IF g.res = "err" THEN CompileError(g.msg)
                           ELSE NoError,
                 log |-> Generated(g)]
    /\ UNCHANGED <<contract, debug, cloned, exists, inner>>

\* Definitions handed to the generators, one after another.
NextDefine ==
    \/ \E input \in Definitions : DefineProcMacro(input)
    \/ \E input \in Definitions : DefineMacroRules(input)
    \/ Drop

SpecDefine == Init /\ [][NextDefine]_vars

----------------------------------------------------------------------------
(* Vocabulary of the properties.                                           *)

\* TRUE for a wrapper declared with extend!.
Extended(c) == Decl(c).base # NoBase

\* The contract's own predicate, as ensure / validate decide it.
Satisfies(c, v) == Pred(Decl(c).pred, v)

\* The contract's own adjust closure (total on the values it is given here).
Adjusted(c, v) == Adjust(Decl(c).adjust, v)

CheckedOps == {"new", "set", "mutate"}

\* The links of the contract's chain, root base first.
RECURSIVE Chain(_)
Chain(c) == IF Extended(c) THEN Append(Chain(Decl(c).base), c) ELSE <<c>>

----------------------------------------------------------------------------
(* C1 .. C4: the checked operations.                                       *)

\* C1: after any sequence of checked operations (new, set, mutate, succeeded
\* or failed) the value a wrapper of a non-extended contract holds satisfies
\* the contract's predicate.
C1_CheckedValueSatisfiesPredicate ==
    (exists /\ ~Extended(contract)) => Satisfies(contract, inner)

\* A wrapper with a real predicate has survived a failed mutation.
C1_Witness ==
    /\ exists
    /\ ~Extended(contract)
    /\ Decl(contract).check # "none"
    /\ last.op = "mutate"
    /\ last.res = "err"
    /\ Satisfies(contract, inner)

\* C2: a fallible mutate that returns an error leaves the held value as it
\* was before the call.
C2_FailedMutateKeepsValue ==
    [][(last'.op = "mutate" /\ last'.res = "err")
          => (exists' /\ inner' = inner)]_vars

\* A mutation whose closure changed the clone has just failed.
C2_Witness ==
    /\ exists
    /\ last.op = "mutate"
    /\ last.res = "err"
    /\ last.error.new_value # inner

\* C3: a set that returns an error leaves the wrapper holding the value it
\* held before, which still satisfies the predicate.
C3_FailedSetKeepsValue ==
    [][(last'.op = "set" /\ last'.res = "err")
          => (exists' /\ inner' = inner /\ Satisfies(contract, inner'))]_vars

\* A set with a raw value unlike the held one has just failed.
C3_Witness ==
    /\ exists
    /\ last.op = "set"
    /\ last.res = "err"
    /\ last.arg.s # inner
    /\ Decl(contract).adjust # "none"

\* C4: a failing new or set creates / changes no wrapper, and the
\* ConstructionError carries the value with the contract's adjust applied,
\* not the raw value handed in.
C4_ErrorCarriesAdjustedValue ==
    [][(last'.op \in {"new", "set"} /\ last'.res = "err")
          => /\ exists' = exists
             /\ inner' = inner
             /\ last'.error.kind = "construction"
             /\ ~Extended(contract)
                  => last'.error.value = Adjusted(contract, last'.arg.s)]_vars

\* Username::new("   ") has failed with error value "".
C4_Witness ==
    /\ contract = "Username"
    /\ last.op = "new"
    /\ last.res = "err"
    /\ last.arg.s = <<" ", " ", " ">>
    /\ last.error.value = <<>>
    /\ ~exists

----------------------------------------------------------------------------
(* C5 .. C9: the order of the closures and the extension chain.            *)

\* The positions of the log at which closure fn of contract c was invoked.
Calls(c, fn) ==
    {i \in DOMAIN last.log : last.log[i].link = c /\ last.log[i].fn = fn}

\* Within one link: adjust at most once, the predicate at most once, adjust
\* first, and the predicate handed what adjust left behind.
LinkInOrder(c) ==
    /\ Cardinality(Calls(c, "adjust")) <= 1
    /\ Cardinality(Calls(c, "ensure") \cup Calls(c, "validate")) <= 1
    /\ \A i \in Calls(c, "adjust") :
         \A j \in Calls(c, "ensure") \cup Calls(c, "validate") :
            /\ i < j
            /\ last.log[j].arg = last.log[i].out

\* Every closure the link declares ran exactly once.
LinkRanOnce(c) ==
    LET d == Decl(c)
    IN  /\ Cardinality(Calls(c, "adjust")) = (IF d.adjust = "none" THEN 0 ELSE 1)
        /\ Cardinality(Calls(c, "ensure")) = (IF d.check = "ensure" THEN 1 ELSE 0)
        /\ Cardinality(Calls(c, "validate")) = (IF d.check = "validate" THEN 1 ELSE 0)

InChain(c) == {Chain(c)[i] : i \in DOMAIN Chain(c)}

\* C5: on every new, set and mutate the adjust closure runs before the
\* ensure / validate closure, each exactly once per pipeline run, and the
\* predicate is evaluated on the adjusted value, not on the raw input.
C5_AdjustBeforeValidate ==
    last.op \in CheckedOps =>
        /\ \A c \in InChain(contract) : LinkInOrder(c)
        /\ ~Extended(contract) =>
             /\ LinkRanOnce(contract)
             /\ \A i \in Calls(contract, "adjust") :
                  /\ i = 1
                  /\ last.log[i].out = Adjusted(contract, last.log[i].arg)
                  /\ last.op \in {"new", "set"} => last.log[i].arg = last.arg.s
             /\ \A j \in Calls(contract, Decl(contract).check) :
                  /\ last.log[j].arg = Adjusted(contract, last.log[1].arg)
                  /\ last.log[j].pass = Satisfies(contract, last.log[j].arg)
                  /\ (last.res = "ok") = last.log[j].pass
        /\ last.res = "ok" => \A c \in InChain(contract) : LinkRanOnce(c)

\* Username::new(" "): the raw value passes the predicate, the adjusted one
\* does not, and the call failed.
C5_Witness ==
    /\ contract = "Username"
    /\ last.op = "new"
    /\ last.arg.s = <<" ">>
    /\ Satisfies(contract, last.arg.s)
    /\ last.res = "err"
    /\ Len(last.log) = 2

\* C6: when a fallible mutate fails, the MutationError's old_value is the
\* value held before the call, which is still the held value, and its
\* new_value is the closure's result with adjust applied.
C6_MutationErrorValues ==
    [][(last'.op = "mutate" /\ last'.res = "err")
          => /\ last'.error.kind = "mutation"
             /\ last'.error.old_value = inner
             /\ inner' = last'.error.old_value
             /\ ~Extended(contract)
                  => last'.error.new_value
                       = Adjusted(contract, Apply(last'.arg, inner))]_vars

\* On Username "a", |u| *u = "  " has failed: old_value "a", new_value "".
C6_Witness ==
    /\ contract = "Username"
    /\ last.op = "mutate"
    /\ last.res = "err"
    /\ last.arg = [k |-> "assign", s |-> <<" ", " ">>]
    /\ last.error.old_value = <<"a">>
    /\ last.error.new_value = <<>>
    /\ inner = <<"a">>

\* What the chain of contracts `links` makes of v, link by link, the first
\* link first: the link that rejects it, or the fully adjusted value.
RECURSIVE ChainOutcome(_, _)
ChainOutcome(links, v) ==
    IF links = <<>> THEN [ok |-> TRUE, by |-> "none", value |-> v]
    ELSE LET x == Adjusted(Head(links), v)
         IN  IF ~Satisfies(Head(links), x)
             THEN [ok |-> FALSE, by |-> Head(links), value |-> x]
             ELSE ChainOutcome(Tail(links), x)

\* The contract whose closure made the last entry of the log.
LastLink(log) == log[Len(log)].link

\* C7: for an extended contract, a value that fails a base's predicate (after
\* that base's adjust) reports the base's error; a value that passes the
\* bases and fails the extension's own predicate reports the extension's
\* error; one that passes every link succeeds holding the fully adjusted
\* value.
C7_BaseErrorFirst ==
    [][(last'.op \in CheckedOps /\ Extended(contract))
          => LET input == IF last'.op = "mutate" THEN Apply(last'.arg, inner)
                          ELSE last'.arg.s
                 want == ChainOutcome(Chain(contract), input)
             IN  IF want.ok
                 THEN /\ last'.res = "ok"
                      /\ exists'
                      /\ inner' = want.value
                 ELSE /\ last'.res = "err"
                      /\ last'.error.original.msg = Decl(want.by).emsg
                      /\ last'.error.original.ty = Decl(contract).ety
                      /\ LastLink(last'.log) = want.by
                      /\ ~last'.log[Len(last'.log)].pass]_vars

\* Sentence::new(" ") has failed with Text's error, not Sentence's.
C7_Witness ==
    /\ contract = "Sentence"
    /\ last.op = "new"
    /\ last.arg.s = <<" ">>
    /\ last.res = "err"
    /\ last.error.original.msg = "provided text is empty"
    /\ ~Satisfies("Sentence", last.error.value)

\* The position of link l in the chain of contract c.
LinkIndex(c, l) == CHOOSE i \in DOMAIN Chain(c) : Chain(c)[i] = l

\* C8: in an extended contract the base's whole process runs first, and a
\* failure stops the pipeline at once: no closure is invoked after one that
\* rejected the value, an extension's closures only ever see a value its
\* base accepted, and CapText's adjust never meets the empty text.
C8_StopAtFirstFailure ==
    (last.op \in CheckedOps /\ Extended(contract)) =>
        /\ last.res # "panic"
        /\ \A i \in DOMAIN last.log :
             /\ ~last.log[i].pass => i = Len(last.log)
             /\ \A j \in DOMAIN last.log :
                  i < j => LinkIndex(contract, last.log[i].link)
                             <= LinkIndex(contract, last.log[j].link)
             /\ Extended(last.log[i].link)
                  => Satisfies(Decl(last.log[i].link).base, last.log[i].arg)
        /\ last.res = "err" /\ LastLink(last.log) # contract
             => Calls(contract, "adjust") \cup Calls(contract, "ensure")
                  \cup Calls(contract, "validate") = {}

\* CapText::new(" ") has failed in Text; CapText's adjust was not invoked.
C8_Witness ==
    /\ contract = "CapText"
    /\ last.op = "new"
    /\ last.arg.s = <<" ">>
    /\ last.res = "err"
    /\ Calls("Text", "validate") # {}
    /\ Calls("CapText", "adjust") = {}

\* The adjust closures of `links` applied in order.
RECURSIVE AdjustedBy(_, _)
AdjustedBy(links, v) ==
    IF links = <<>> THEN v
    ELSE AdjustedBy(Tail(links), Adjusted(Head(links), v))

\* C9: when a link of an extension chain fails, the value in the error has
\* the adjustments of the links before it and of the failing link applied,
\* and those of no later link.
C9_ErrorValueAdjustedUpToFailure ==
    [][(last'.op \in CheckedOps /\ last'.res = "err" /\ Extended(contract))
          => LET input == IF last'.op = "mutate" THEN Apply(last'.arg, inner)
                          ELSE last'.arg.s
                 n == LinkIndex(contract, LastLink(last'.log))
                 carried == IF last'.op = "mutate" THEN last'.error.new_value
                            ELSE last'.error.value
             IN  carried = AdjustedBy(SubSeq(Chain(contract), 1, n), input)]_vars

\* Sentence::new(" a ") has failed in Sentence with error value "A": trimmed
\* by Text and capitalised by CapText.
C9_Witness ==
    /\ contract = "Sentence"
    /\ last.op = "new"
    /\ last.arg.s = <<" ", "a", " ">>
    /\ last.res = "err"
    /\ LastLink(last.log) = "Sentence"
    /\ last.error.value = <<"A">>

----------------------------------------------------------------------------
(* C10: verify.                                                            *)

\* Every predicate of the contract's chain holds for v exactly as it is.
HoldsAsIs(c, v) == \A l \in InChain(c) : Satisfies(l, v)

\* C10 as stated: verify runs validation only, so it succeeds exactly when
\* the predicate holds for the held value as it is.  (last.arg.s is the
\* value the wrapper held when verify was called.)
C10_VerifyIffPredicateAsIs ==
    last.op = "verify" => ((last.res = "ok") <=> HoldsAsIs(contract, last.arg.s))

\* C10 as amended: verify runs the whole PROCESS, adjust included, on the
\* held value, so it succeeds exactly when the predicate holds for the held
\* value after adjust has been applied to it.
C10_VerifyIffPredicateAfterAdjust ==
    last.op = "verify" =>
        /\ last.res \in {"ok", "err"}
        /\ (last.res = "ok") <=> ChainOutcome(Chain(contract), last.arg.s).ok
        /\ last.res = "err" => last.error.kind = "verification"

\* A Username made by an unprocessed call held " ", which is not empty;
\* verify trimmed it and failed.
C10_Witness ==
    /\ contract = "Username"
    /\ last.op = "verify"
    /\ last.arg.s = <<" ">>
    /\ HoldsAsIs(contract, last.arg.s)
    /\ last.res = "err"
    /\ ~exists

----------------------------------------------------------------------------
(* C11 .. C14: verify and the _unprocessed operations.                     *)

\* C11 as stated: the value held after a successful verify is identical to
\* the value held before it, also for a wrapper that came from an
\* _unprocessed call.
C11_VerifyKeepsValue ==
    (last.op = "verify" /\ last.res = "ok") => (exists /\ inner = last.arg.s)

\* C11 as amended: verify runs PROCESS on the held value through &mut, so
\* after a successful verify the wrapper holds the value it held before with
\* the adjust closures of the whole chain applied, each link's predicate
\* having accepted it as that link left it; the value is the same as before
\* exactly when those closures leave it alone.
C11_VerifyHoldsAdjustedValue ==
    (last.op = "verify" /\ last.res = "ok") =>
        /\ exists
        /\ inner = AdjustedBy(Chain(contract), last.arg.s)
        /\ ChainOutcome(Chain(contract), last.arg.s).ok

\* A Username that held " a" after an _unprocessed call has been verified
\* and holds "a".
C11_Witness ==
    /\ contract = "Username"
    /\ last.op = "verify"
    /\ last.res = "ok"
    /\ last.arg.s = <<" ", "a">>
    /\ exists
    /\ inner = <<"a">>

\* C12 as stated: verify returns success for every wrapper whose value came
\* from checked operations (new, set, mutate, succeeded or failed) alone; the
\* wrapper is given back.
C12_VerifyAcceptsCheckedValue ==
    last.op = "verify" => (last.res = "ok" /\ exists)

\* C13 as stated: the _unprocessed operations bypass adjust and the predicate
\* in every build: once new_unprocessed(v) or set_unprocessed(v) has returned
\* the held value is exactly v, and once mutate_unprocessed(f) has returned
\* it is exactly f applied to the value held before.
C13_UnprocessedStoresExactValue ==
    [][/\ (last'.op \in {"new_unprocessed", "set_unprocessed"}
            /\ last'.res = "ok")
          => (exists' /\ inner' = last'.arg.s)
       /\ (last'.op = "mutate_unprocessed" /\ last'.res = "ok")
          => (exists' /\ inner' = Apply(last'.arg, inner))]_vars

\* C14 as stated: new_unprocessed(v) and mutate_unprocessed(|u| *u = v)
\* return normally for every v, also one the predicate rejects, and the
\* wrapper then holds v.
C14_UnprocessedNeverFails ==
    (/\ last.op \in {"new_unprocessed", "mutate_unprocessed"}
     /\ last.arg.k \in {"raw", "assign"})
        => (last.res = "ok" /\ exists /\ inner = last.arg.s)

----------------------------------------------------------------------------
(* C15: the panicking mutate against the fallible one.                     *)

----------------------------------------------------------------------------
(* C16: deserialization.                                                   *)

\* C16: deserializing a raw value goes through the pipeline of new: it
\* yields a wrapper holding the adjusted value when every predicate of the
\* chain passes, and otherwise fails with the text of the rejecting
\* contract's error and makes no wrapper; whatever was deserialized, a held
\* value is what the pipeline made of some raw value it accepted.
C16_DeserializeRunsPipeline ==
    /\ exists => \E r \in Raw :
                    ChainOutcome(Chain(contract), r)
                        = [ok |-> TRUE, by |-> "none", value |-> inner]
    /\ (last.op = "deserialize" /\ last.arg.k = "string") =>
         LET want == ChainOutcome(Chain(contract), last.arg.s)
         IN  IF want.ok
             THEN /\ last.res = "ok"
                  /\ exists
                  /\ inner = want.value
             ELSE /\ last.res = "err"
                  /\ last.error.kind = "custom"
                  /\ last.error.original.msg = Decl(want.by).emsg

\* Deserializing " a " into a Username has given a wrapper holding "a", as
\* in deserialization_succeeds_with_valid_data.
C16_Witness ==
    /\ contract = "Username"
    /\ last.op = "deserialize"
    /\ last.arg = [k |-> "string", s |-> <<" ", "a", " ">>]
    /\ last.res = "ok"
    /\ exists
    /\ inner = <<"a">>

----------------------------------------------------------------------------
(* C17 .. C20: the forms of a definition; set against new.                 *)

C18_AdjustOnlyNeverFails ==
    [][(/\ last'.op \in CheckedOps
        /\ ~Extended(contract)
        /\ Decl(contract).check = "none"
        /\ Decl(contract).adjust # "none")
          => LET input == IF last'.op = "mutate" THEN Apply(last'.arg, inner)
                          ELSE last'.arg.s
             IN  /\ last'.res = "ok"
                 /\ last'.error = NoError
                 /\ exists'
                 /\ inner' = Adjusted(contract, input)]_vars

\* UsernameAdjust::new("  ") has succeeded and the wrapper holds "".
C18_Witness ==
    /\ contract = "UsernameAdjust"
    /\ last.op = "new"
    /\ last.arg.s = <<" ", " ">>
    /\ last.res = "ok"
    /\ exists
    /\ inner = <<>>

\* The keywords written in a definition.
Written(input) == {input[i] : i \in DOMAIN input}

\* C19: a definition that has both an ensure and a validate closure is
\* rejected by either generator, whichever of the two is written first; an
\* accepted definition has at most one of them, and the generated process
\* has the validation block of the one that was written.
C19_EnsureAndValidateRejected ==
    last.op \in {"prae_macro::define", "define!"} =>
        LET written == Written(last.arg.s)
        IN  /\ {"ensure", "validate"} \subseteq written
                 => (last.res = "err" /\ last.log = <<>>)
            /\ last.res = "ok"
                 => /\ ~({"ensure", "validate"} \subseteq written)
                    /\ Len(last.log) = 1
                    /\ last.log[1].closure
                         = (IF "ensure" \in written THEN "ensure"
                            ELSE IF "validate" \in written THEN "validate"
                            ELSE "none")

\* The procedural macro was handed ensure before validate: no "both" error
\* came from parse_validation_closure, the left-over validate clause was
\* refused.
C19_Witness ==
    /\ last.op = "prae_macro::define"
    /\ last.arg.s = <<"adjust", "ensure", "validate">>
    /\ last.res = "err"
    /\ last.error.original.msg # BothClosures

\* C20: set is new applied in place: w.set(r) returns Ok exactly when
\* new(r) does; on Ok w holds the value the wrapper from new(r) holds; on
\* Err the ConstructionError is the one new(r) returns, inner error and
\* value alike, and w holds what it held.
C20_SetLikeNew ==
    [][/\ last'.op = "set"
          => LET n == NewResult(last'.arg.s)
             IN  /\ last'.res = n.res
                 /\ last'.error = n.error
                 /\ exists'
                 /\ inner' = (IF n.res = "ok" THEN n.held ELSE inner)
       /\ last'.op = "new"
          => LET n == NewResult(last'.arg.s)
             IN  /\ last'.res = n.res
                 /\ last'.error = n.error
                 /\ n.res = "ok" => (exists' /\ inner' = n.held)
                 /\ n.res # "ok" => (exists' = exists /\ inner' = inner)]_vars

\* A Sentence holding "a!" was set to " a ": the set failed in Sentence
\* with the value "A" in the error, as Sentence::new(" a ") does.
C20_Witness ==
    /\ contract = "Sentence"
    /\ exists
    /\ inner = <<"A", "!">>
    /\ last.op = "set"
    /\ last.arg.s = <<" ", "a", " ">>
    /\ last.res = "err"
    /\ last.error = NewResult(last.arg.s).error
    /\ last.error.value = <<"A">>

----------------------------------------------------------------------------
(* C21 .. C22: what a successful call leaves in the wrapper.               *)

\* C21: when a fallible mutate with closure f succeeds on a wrapper holding
\* v, the wrapper holds the closure's result with the adjust closures of the
\* contract (base links first) applied; when it does not succeed the wrapper
\* holds v.
C21_MutateHoldsAdjustedResult ==
    [][last'.op = "mutate"
          => /\ exists'
             /\ last'.res = "ok"
                  => inner' = AdjustedBy(Chain(contract),
                                         Apply(last'.arg, inner))
             /\ (last'.res = "ok" /\ ~Extended(contract))
                  => inner' = Adjusted(contract, Apply(last'.arg, inner))
             /\ last'.res # "ok" => inner' = inner]_vars

\* On a Username, |u| *u = " a " has succeeded and the wrapper holds "a".
C21_Witness ==
    /\ contract = "Username"
    /\ exists
    /\ last.op = "mutate"
    /\ last.arg = [k |-> "assign", s |-> <<" ", "a", " ">>]
    /\ last.res = "ok"
    /\ inner = <<"a">>

\* C22: for a contract declared without an adjust closure (and without a
\* base) the pipeline never alters the value: after a successful new(r) or
\* set(r) the wrapper holds exactly r, after a successful mutate(f) exactly
\* f of the value held before, the predicate is handed that very value, and
\* the error of a failing call carries it.
C22_NoAdjustKeepsValue ==
    [][(/\ last'.op \in CheckedOps
        /\ ~Extended(contract)
        /\ Decl(contract).adjust = "none")
          => LET input == IF last'.op = "mutate" THEN Apply(last'.arg, inner)
                          ELSE last'.arg.s
             IN  /\ last'.res \in {"ok", "err"}
                 /\ last'.res = "ok" => (exists' /\ inner' = input)
                 /\ last'.res = "err"
                      => /\ inner' = inner
                         /\ (IF last'.op = "mutate"
                             THEN last'.error.new_value
                             ELSE last'.error.value) = input
                 /\ \A i \in DOMAIN last'.log :
                      /\ last'.log[i].arg = input
                      /\ last'.log[i].out = input]_vars

\* UsernameEnsure::new(" a ") has succeeded and holds " a ", blanks kept.
C22_Witness ==
    /\ contract = "UsernameEnsure"
    /\ last.op = "new"
    /\ last.arg.s = <<" ", "a", " ">>
    /\ last.res = "ok"
    /\ exists
    /\ inner = <<" ", "a", " ">>
    /\ inner # Trim(inner)

----------------------------------------------------------------------------
(* C23: the error wrappers.                                                *)

\* C23: map_inner on the Result of a failed new, set or mutate yields
\* exactly the error the rejecting closure produced (as the contract's Error
\* type), the same one the ConstructionError / MutationError carried; on an
\* Ok Result it yields Ok and the wrapper is as it was.
C23_MapInnerYieldsContractError ==
    [][last'.op = "map_inner"
          => /\ last'.res = last.res
             /\ exists' = exists
             /\ inner' = inner
             /\ last.res = "ok" => last'.error = NoError
             /\ last.res = "err"
                  => /\ last.error.kind \in {"construction", "mutation"}
                     /\ last'.error.kind = "inner"
                     /\ last'.error.original = last.error.original
                     /\ last'.error.original
                          = [ty |-> Decl(contract).ety,
                             msg |-> Decl(LastLink(last.log)).emsg]]_vars

\* A failed mutation of a UsernameValidate was mapped to its UsernameError.
C23_Witness ==
    /\ contract = "UsernameValidate"
    /\ exists
    /\ last.op = "map_inner"
    /\ last.arg.k = "mutate"
    /\ last.res = "err"
    /\ last.error.original = [ty |-> "UsernameError", msg |-> "username is empty"]

----------------------------------------------------------------------------
(* C24 .. C25: clones and read-only access.                                *)

\* C24: right after c = w.clone() both wrappers hold equal values and w is
\* as it was; from then on a set or mutate on one of the two, successful or
\* failed, leaves the value the other holds unchanged.
C24_CloneIsIndependent ==
    [][/\ last'.op = "clone"
          => /\ cloned'.exists
             /\ cloned'.inner = inner
             /\ exists'
             /\ inner' = inner
       /\ last'.op \in {"new", "new_unprocessed", "set", "mutate"}
          => cloned' = cloned
       /\ (last' = last /\ inner' # inner)
          => (inner' = cloned.inner /\ cloned'.inner = inner)]_vars

\* After the clone was made, mutations on both sides succeeded and the two
\* wrappers hold different values.
C24_Witness ==
    /\ exists
    /\ cloned.exists
    /\ last.op = "mutate"
    /\ last.res = "ok"
    /\ Len(inner) = MaxLen
    /\ cloned.inner # <<>>
    /\ Len(cloned.inner) < Len(inner)

\* C25 as stated: get, as_ref, borrow, deref, index, comparison and
\* serialization never fail for a live wrapper.
C25_ReadsNeverFail ==
    last.op \in ReadOps => (last.res = "ok" /\ exists)

\* C25 as amended: every read leaves the wrapper and its clone as they
\* were; get, as_ref, borrow and deref return the held value, eq and cmp
\* compare the held values, serialization emits the held value as it is,
\* valid or not, and none of these fails; index returns the part of the held
\* value the range names and panics when the range reaches beyond its end.
C25_ReadsLeaveValue ==
    [][last'.op \in ReadOps
          => /\ exists /\ exists'
             /\ inner' = inner
             /\ cloned' = cloned
             /\ last'.op # "index" => last'.res = "ok"
             /\ last'.res = "ok"
                  => /\ Len(last'.log) = 1
                     /\ last'.log[1].arg = inner
             /\ last'.op \in {"get", "as_ref", "borrow", "deref"}
                  => last'.log[1].out = inner
             /\ last'.op = "eq"
                  => last'.log[1].out = (inner = cloned.inner)
             /\ last'.op = "cmp"
                  => /\ last'.log[1].out \in {"Less", "Equal", "Greater"}
                     /\ (last'.log[1].out = "Equal") <=> (inner = cloned.inner)
                     /\ (last'.log[1].out = "Less")
                          <=> (Cmp(cloned.inner, inner) = "Greater")
             /\ last'.op = "serialize"
                  => last'.log[1].out = [k |-> "string", s |-> inner]
             /\ last'.op = "index"
                  => LET n == last'.arg.s[1]
                     IN  IF n <= Len(inner)
                         THEN /\ last'.res = "ok"
                              /\ last'.log[1].out = SubSeq(inner, 1, n)
                         ELSE last'.res = "panic"]_vars

\* A wrapper holding "" was indexed with ..1 and the index panicked; the
\* wrapper still holds "".
C25_Witness ==
    /\ exists
    /\ inner = <<>>
    /\ last.op = "index"
    /\ last.arg.s = <<1>>
    /\ last.res = "panic"

----------------------------------------------------------------------------
(* C26 .. C27: running the pipeline again, and the base of an extension.   *)

\* C26 as stated: the pipeline is idempotent on the values it accepts, for
\* extended contracts too: a value held after checked operations is accepted
\* by PROCESS again and left as it is, and a mutate with a closure that does
\* nothing and a set to the held value succeed and change nothing.
C26_PipelineIdempotent ==
    [][/\ exists'
          => LET again == PROCESS(contract, inner')
             IN  again.res = "ok" /\ again.value = inner'
       /\ (exists /\ last'.op = "set" /\ last'.arg.s = inner)
          => (last'.res = "ok" /\ inner' = inner)
       /\ (last'.op = "mutate" /\ last'.arg.k = "noop")
          => (last'.res = "ok" /\ inner' = inner)]_vars

\* C27 as stated: the value a wrapper of an extended contract holds after
\* checked operations satisfies the predicate of every contract it is built
\* on.
C27_ExtendedValueSatisfiesBase ==
    (exists /\ Extended(contract))
        => \A l \in InChain(contract) \ {contract} : Satisfies(l, inner)

----------------------------------------------------------------------------
(* C28: a panic inside a fallible mutation.                                *)

\* C28: when the mutation closure or a closure of the pipeline panics during
\* a fallible mutate, the wrapper (and a clone made of it earlier) still
\* holds the value it held before the call; the call panics exactly when
\* the closure panics on the held value or PROCESS panics on the closure's
\* result.
C28_PanicKeepsLiveValue ==
    [][last'.op = "mutate"
          => /\ last'.res = "panic"
                 => (exists' /\ inner' = inner /\ cloned' = cloned)
             /\ (last'.res = "panic")
                 <=> (IF ClosurePanics(last'.arg, inner) THEN TRUE
                      ELSE PROCESS(contract, Apply(last'.arg, inner)).res
                             = "panic")]_vars

\* A Capitalized holding "A!" was cleared by a mutation, the adjust closure
\* panicked on the empty clone, and the wrapper still holds "A!".
C28_Witness ==
    /\ contract = "Capitalized"
    /\ exists
    /\ inner = <<"A", "!">>
    /\ last.op = "mutate"
    /\ last.arg.k = "clear"
    /\ last.res = "panic"
    /\ Calls("Capitalized", "adjust") # {}

----------------------------------------------------------------------------
(* C29: the _unprocessed operations in debug and release builds.           *)

\* C29 as stated: for every input that PROCESS accepts, new_unprocessed,
\* set_unprocessed and mutate_unprocessed leave the same held value with
\* debug assertions on as with debug assertions off, where PROCESS is not
\* run and the wrapper holds the input itself.
C29_SameInDebugAndRelease ==
    [][last'.op \in {"new_unprocessed", "set_unprocessed", "mutate_unprocessed"}
          => LET input == IF last'.op = "mutate_unprocessed"
                          THEN Apply(last'.arg, inner)
                          ELSE last'.arg.s
             IN  PROCESS(contract, input).res = "ok"
                    => (last'.res = "ok" /\ exists' /\ inner' = input)]_vars

----------------------------------------------------------------------------
(* C30: the round trip through the inner value.                            *)

\* C30 as stated: the value of a wrapper made by checked operations goes
\* through the pipeline again unharmed: into_inner hands out the held value
\* and serialization the held value as a document, and new, TryFrom and
\* deserialization given the value a clone of the wrapper holds succeed with
\* a wrapper holding an equal value.
C30_RoundTrip ==
    [][/\ last'.op = "into_inner"
          => (~exists' /\ last'.log[1].out = inner)
       /\ last'.op = "serialize"
          => last'.log[1].out = [k |-> "string", s |-> inner]
       /\ (/\ cloned.exists
           /\ \/ last'.op \in {"new", "try_from"}
                    /\ last'.arg.s = cloned.inner
              \/ last'.op = "deserialize"
                    /\ last'.arg = [k |-> "string", s |-> cloned.inner])
          => (last'.res = "ok" /\ exists' /\ inner' = cloned.inner)]_vars

====
